---- MODULE Spec2Model ----
(***************************************************************************)
(* The VM lifecycle of agent.py (AgentVM): the init, edit and build        *)
(* commands, the .agentconfig record they share, and the Linode provider   *)
(* they call.  Each invocation of the tool is one process; its position in *)
(* the code is pc, its Python locals are frame, and trace records what it  *)
(* has done (the provider calls it issued, how it ended).                  *)
(***************************************************************************)
EXTENDS Integers, Sequences, FiniteSets, TLC

\* ---------------------------------------------------------------- bounds

\* terminals from which the tool is invoked; SeqProcs is the one used when
\* invocations follow one another
Procs == {"t1", "t2"}
SeqProcs == {"t1"}

\* instances and images the provider hands out before it refuses (quota)
MaxInstances == 2
MaxImages == 2
\* status fetches one _wait_for_boot may issue (the loop itself is unbounded)
MaxPolls == 3
\* status fetches and image polls of one invocation when two terminals interleave
MaxConcPolls == 1

\* values of Instance.generate_root_password() and of int(time.time())
Passwords == {"pw-a", "pw-b"}
Times == {1}

\* ------------------------------------------------------ program constants

GraceTicksShort == 30 - 1
GraceTicks == 30
ImagePollSeconds == 10
MaxWaitTime == 600
PercentCap == 95
RepoName == "repo"
InstanceType == "g6-nanode-1"
\* image identifiers: none (a missing or empty base_image_id), the stock
\* image of init, and the private images the provider creates
NoImage == <<>>
StockImage == <<"linode/ubuntu22.04", 0>>
PrivateImage(n) == <<"private", n>>

\* statuses the provider reports for an instance and for an image
InstanceStatuses == {"provisioning", "booting", "running"}
ImageStatuses == {"creating", "available"}

CallKinds == {"create", "fetch", "snapshot", "image_get", "delete"}

\* ------------------------------------------------------------------ state

VARIABLES
    configFile,      \* .agentconfig: <<>> when absent, <<config>> when present
    instances,       \* ids of the instances that exist at the provider
    nextInstanceId,  \* the id the provider gives the next instance
    nextImageId,     \* the number the provider gives the next image
    seenAvailable,   \* images some invocation has observed "available"
    pc,              \* each invocation's position in the code
    cmd,             \* each invocation's command: init, edit or build
    frame,           \* each invocation's locals
    trace            \* each invocation's history

vars == <<configFile, instances, nextInstanceId, nextImageId, seenAvailable,
          pc, cmd, frame, trace>>

\* the dict _load_config returns for a missing file
EmptyConfig ==
    [repo_name |-> "", base_image_id |-> NoImage, instance_type |-> "",
     created_at |-> 0, root_password |-> ""]

NoInstance == [id |-> 0, status |-> "None"]
NoImageHandle == [id |-> NoImage, status |-> "None"]

NoCalls == [k \in CallKinds |-> 0]

NewFrame ==
    [config |-> EmptyConfig, instance_id |-> 0, instance |-> NoInstance,
     image |-> NoImageHandle, should_save |-> FALSE, i |-> 0,
     wait_time |-> 0, percentage |-> 0, report |-> "none", exc |-> "none"]

NewTrace(file) ==
    [before |-> file, calls |-> NoCalls, writes |-> 0, failed |-> "none",
     session |-> FALSE, created |-> "None", root_pass |-> "", polled |-> <<>>,
     interrupted |-> "none", outcome |-> "none"]

\* a record file written by hand without a base image
BlankRecord ==
    [repo_name |-> RepoName, base_image_id |-> NoImage,
     instance_type |-> InstanceType, created_at |-> 1, root_password |-> "pw-a"]

Init ==
    /\ configFile \in {<<>>, <<BlankRecord>>}
    /\ instances = {}
    /\ nextInstanceId = 1
    /\ nextImageId = 1
    /\ seenAvailable = {}
    /\ pc = [p \in Procs |-> "idle"]
    /\ cmd = [p \in Procs |-> "none"]
    /\ frame = [p \in Procs |-> NewFrame]
    /\ trace = [p \in Procs |-> NewTrace(<<>>)]

\* ---------------------------------------------------------------- helpers

\* _load_config
LoadConfigFile(file) == IF Len(file) = 0 THEN EmptyConfig ELSE file[1]

\* config.get('base_image_id') is truthy
HasBaseImageAlways(config) == TRUE
HasBaseImage(config) == config.base_image_id # NoImage

\* os.path.exists(self.config_file)
ConfigExistsNever(file) == FALSE
ConfigExists(file) == Len(file) > 0

\* the try block of edit_environment
InTryNarrow(c, at) == c = "edit" /\ at \in {"prompt", "snapshot"}
InTry(c, at) == c = "edit" /\ at \in {"prompt", "snapshot", "image_wait", "save"}

\* the except Exception clause of build_session
Caught(c, e) == c = "build" /\ e # "KeyboardInterrupt"

\* where an exception raised at position at takes the invocation
RaisePc(c, at) == IF InTry(c, at) THEN "cleanup" ELSE "done"

RaiseOutcome(c, at, e) ==
    IF InTry(c, at) THEN "none" ELSE IF Caught(c, e) THEN "failed" ELSE "crashed"

\* while instance.status != 'running'
BootLoopPcEager(status) == "grace"
BootLoopPc(status) == IF status # "running" THEN "boot" ELSE "grace"

\* _create_vm returned None: _wait_for_boot(None) raises AttributeError
AfterCreateFailureRetry(c) == "create"
AfterCreateFailure(c) == RaisePc(c, "create")

\* the Config that init_project builds
NewConfig(pw, now) ==
    [repo_name |-> RepoName, base_image_id |-> StockImage,
     instance_type |-> InstanceType, created_at |-> now, root_password |-> pw]

\* _create_vm: root_pass=config['root_password']
CreateRootPass(config) == config.root_password

\* config['base_image_id'] = image.id
SavedConfigFresh(config, image) == [EmptyConfig EXCEPT !.base_image_id = image.id]
SavedConfigStale(config, image) == config
SavedConfig(config, image) == [config EXCEPT !.base_image_id = image.id]

\* _save_config: open(path, 'w') and json.dump, whatever the file held
WrittenFileFirstWins(file, config) == IF Len(file) > 0 THEN file ELSE <<config>>
WrittenFile(file, config) == <<config>>

Called(t, k) == [t EXCEPT !.calls[k] = @ + 1]
CallFailed(t, k) == [t EXCEPT !.calls[k] = @ + 1, !.failed = k]

\* ------------------------------------------- Python float (IEEE 754 double)

\* the 52 digits after the leading one, in four groups
DigitBits == 52 \div 4

\* A positive double is [m, e]: m its 53-digit binary significand written as
\* <<1, d1, d2, d3, d4>>, the leading one and the 52 digits after it in four
\* groups of DigitBits, and e the power of two of the leading one.
RECURSIVE Pow2(_)
Pow2(n) == IF n = 0 THEN 1 ELSE 2 * Pow2(n - 1)

Digit == Pow2(DigitBits)

\* the significand plus one unit in its last place, carries included; a
\* carry out of the top leaves 10.00...0, which is 1.00...0 one power higher
NextUp(f) ==
    LET s4 == f.m[5] + 1
        s3 == f.m[4] + s4 \div Digit
        s2 == f.m[3] + s3 \div Digit
        s1 == f.m[2] + s2 \div Digit
        top == f.m[1] + s1 \div Digit
    IN  IF top > 1
        THEN [m |-> <<1, 0, 0, 0, 0>>, e |-> f.e + 1]
        ELSE [m |-> <<1, s1 % Digit, s2 % Digit, s3 % Digit, s4 % Digit>>, e |-> f.e]

\* round to nearest, ties to even: f holds the first 53 digits of the exact
\* value, rest / half says how what lies below them compares with one half
\* of a unit in the last place
RoundNearestEven(f, rest, half) ==
    IF rest > half \/ (rest = half /\ f.m[5] % 2 = 1) THEN NextUp(f) ELSE f

\* the power of two of the leading digit of a / b
RECURSIVE QuotientExp(_, _)
QuotientExp(a, b) ==
    IF a < b THEN QuotientExp(2 * a, b) - 1
    ELSE IF a >= 2 * b THEN QuotientExp(a, 2 * b) + 1
    ELSE 0

\* int / int, true division of two positive ints: the quotient correctly
\* rounded to a double (long division, a group of digits at a time)
FloatDiv(a, b) ==
    LET e == QuotientExp(a, b)
        an == IF e < 0 THEN a * Pow2(0 - e) ELSE a
        bn == IF e > 0 THEN b * Pow2(e) ELSE b
        r0 == an - bn
        r1 == (r0 * Digit) % bn
        r2 == (r1 * Digit) % bn
        r3 == (r2 * Digit) % bn
        r4 == (r3 * Digit) % bn
    IN  RoundNearestEven(
            [m |-> <<1, (r0 * Digit) \div bn, (r1 * Digit) \div bn,
                        (r2 * Digit) \div bn, (r3 * Digit) \div bn>>,
             e |-> e],
            2 * r4, bn)

\* the number of binary digits of n after its leading one
RECURSIVE Log2(_)
Log2(n) == IF n < 2 THEN 0 ELSE 1 + Log2(n \div 2)

\* float * int for an int below Digit, which is a double itself: the exact
\* product, its digits moved down by t to bring the leading one back to the
\* top, and the t digits that fall off rounded
FloatMulInt(f, c) ==
    LET p4 == f.m[5] * c
        p3 == f.m[4] * c + p4 \div Digit
        p2 == f.m[3] * c + p3 \div Digit
        p1 == f.m[2] * c + p2 \div Digit
        top == f.m[1] * c + p1 \div Digit
        t == Log2(top)
        low == Pow2(t)
        up == Pow2(DigitBits - t)
        g1 == p1 % Digit
        g2 == p2 % Digit
        g3 == p3 % Digit
        g4 == p4 % Digit
    IN  RoundNearestEven(
            [m |-> <<top \div low,
                     (top % low) * up + g1 \div low,
                     (g1 % low) * up + g2 \div low,
                     (g2 % low) * up + g3 \div low,
                     (g3 % low) * up + g4 \div low>>,
             e |-> f.e + t],
            2 * (g4 % low), low)

\* int(float): the digits before the point (of a double below 2^(2*DigitBits))
FloatToInt(f) ==
    IF f.e < 0 THEN 0
    ELSE IF f.e <= DigitBits
         THEN Pow2(f.e) + f.m[2] \div Pow2(DigitBits - f.e)
         ELSE Pow2(f.e) + f.m[2] * Pow2(f.e - DigitBits)
                        + f.m[3] \div Pow2(2 * DigitBits - f.e)

Min(a, b) == IF a < b THEN a ELSE b

\* percentage = min(int((wait_time / max_wait_time) * 95), 95)
PercentageShortWait(wait_time) ==
    Min(FloatToInt(FloatMulInt(FloatDiv(wait_time, MaxWaitTime - ImagePollSeconds), PercentCap)),
        PercentCap)
Percentage(wait_time) ==
    Min(FloatToInt(FloatMulInt(FloatDiv(wait_time, MaxWaitTime), PercentCap)), PercentCap)

\* ---------------------------------------------------------------- actions

\* main: a command is invoked from a terminal
Start(p) ==
    /\ pc[p] \in {"idle", "done"}
    /\ \E c \in {"init", "edit", "build"}, id \in 0..MaxInstances :
        /\ id # 0 => c = "build"
        /\ cmd' = [cmd EXCEPT ![p] = c]
        /\ frame' = [frame EXCEPT ![p] = [NewFrame EXCEPT !.instance_id = id]]
    /\ pc' = [pc EXCEPT ![p] = "entry"]
    /\ trace' = [trace EXCEPT ![p] = NewTrace(configFile)]
    /\ UNCHANGED <<configFile, instances, nextInstanceId, nextImageId, seenAvailable>>

\* init_project, the existence check and the building of the config
InitCheck(p) ==
    /\ pc[p] = "entry" /\ cmd[p] = "init"
    /\ IF ConfigExists(configFile)
       THEN /\ pc' = [pc EXCEPT ![p] = "done"]
            /\ trace' = [trace EXCEPT ![p].outcome = "config_error"]
            /\ frame' = frame
       ELSE /\ \E pw \in Passwords, now \in Times :
                frame' = [frame EXCEPT ![p].config = NewConfig(pw, now)]
            /\ pc' = [pc EXCEPT ![p] = "init_write"]
            /\ trace' = trace
    /\ UNCHANGED <<configFile, instances, nextInstanceId, nextImageId, seenAvailable, cmd>>

\* init_project, self._save_config(config)
InitWrite(p) ==
    /\ pc[p] = "init_write"
    /\ configFile' = WrittenFile(configFile, frame[p].config)
    /\ pc' = [pc EXCEPT ![p] = "done"]
    /\ trace' = [trace EXCEPT ![p].writes = @ + 1, ![p].outcome = "returned"]
    /\ UNCHANGED <<instances, nextInstanceId, nextImageId, seenAvailable, cmd, frame>>

\* edit_environment and build_session, the load of the config and its check
LoadConfig(p) ==
    /\ pc[p] = "entry" /\ cmd[p] \in {"edit", "build"}
    /\ LET config == LoadConfigFile(configFile) IN
        /\ frame' = [frame EXCEPT ![p].config = config]
        /\ IF ~HasBaseImage(config)
           THEN /\ pc' = [pc EXCEPT ![p] = "done"]
                /\ trace' = [trace EXCEPT ![p].outcome = "config_error"]
           ELSE /\ pc' = [pc EXCEPT ![p] =
                        IF frame[p].instance_id # 0 THEN "attach" ELSE "create"]
                /\ trace' = trace
    /\ UNCHANGED <<configFile, instances, nextInstanceId, nextImageId, seenAvailable, cmd>>

\* build_session with --continue: the fetch of the existing instance. The
\* handle is used as fetched, whatever its status.
Attach(p) ==
    /\ pc[p] = "attach"
    /\ \/ /\ frame[p].instance_id \in instances
          /\ \E s \in InstanceStatuses :
                frame' = [frame EXCEPT ![p].instance =
                            [id |-> frame[p].instance_id, status |-> s]]
          /\ pc' = [pc EXCEPT ![p] = "attached"]
          /\ trace' = [trace EXCEPT ![p] = Called(@, "fetch")]
       \/ /\ pc' = [pc EXCEPT ![p] = RaisePc(cmd[p], "attach")]
          /\ frame' = [frame EXCEPT ![p].exc = "Exception"]
          /\ trace' = [trace EXCEPT ![p] =
                [CallFailed(@, "fetch") EXCEPT
                    !.outcome = RaiseOutcome(cmd[p], "attach", "Exception")]]
    /\ UNCHANGED <<configFile, instances, nextInstanceId, nextImageId, seenAvailable, cmd>>

\* _create_vm, followed by the entry of _wait_for_boot. A failed request
\* returns None, on which _wait_for_boot raises AttributeError.
CreateVm(p) ==
    /\ pc[p] = "create"
    /\ \/ /\ nextInstanceId <= MaxInstances
          /\ \E s \in InstanceStatuses :
              /\ frame' = [frame EXCEPT ![p].instance =
                            [id |-> nextInstanceId, status |-> s]]
              /\ pc' = [pc EXCEPT ![p] = BootLoopPc(s)]
              /\ trace' = [trace EXCEPT ![p] =
                    [Called(@, "create") EXCEPT
                        !.created = s, !.root_pass = CreateRootPass(frame[p].config)]]
          /\ instances' = instances \cup {nextInstanceId}
          /\ nextInstanceId' = nextInstanceId + 1
       \/ /\ pc' = [pc EXCEPT ![p] = AfterCreateFailure(cmd[p])]
          /\ frame' = [frame EXCEPT ![p].exc = "AttributeError"]
          /\ trace' = [trace EXCEPT ![p] =
                [CallFailed(@, "create") EXCEPT
                    !.root_pass = CreateRootPass(frame[p].config),
                    !.outcome = RaiseOutcome(cmd[p], "create", "AttributeError")]]
          /\ UNCHANGED <<instances, nextInstanceId>>
    /\ UNCHANGED <<configFile, nextImageId, seenAvailable, cmd>>

\* _wait_for_boot, one turn of the status loop: sleep, then fetch the instance
BootPoll(p) ==
    /\ pc[p] = "boot"
    /\ trace[p].calls["fetch"] < MaxPolls
    /\ \/ /\ frame[p].instance.id \in instances
          /\ \E s \in InstanceStatuses :
              /\ frame' = [frame EXCEPT ![p].instance.status = s]
              /\ pc' = [pc EXCEPT ![p] = BootLoopPc(s)]
              /\ trace' = [trace EXCEPT ![p] =
                    [Called(@, "fetch") EXCEPT !.polled = Append(@, s)]]
       \/ /\ pc' = [pc EXCEPT ![p] = RaisePc(cmd[p], "boot")]
          /\ frame' = [frame EXCEPT ![p].exc = "Exception"]
          /\ trace' = [trace EXCEPT ![p] =
                [CallFailed(@, "fetch") EXCEPT
                    !.outcome = RaiseOutcome(cmd[p], "boot", "Exception")]]
    /\ UNCHANGED <<configFile, instances, nextInstanceId, nextImageId, seenAvailable, cmd>>

\* _wait_for_boot, one turn of the grace loop: for i in range(30): sleep(1)
GraceTick(p) ==
    /\ pc[p] = "grace"
    /\ frame[p].i < GraceTicks
    /\ frame' = [frame EXCEPT ![p].i = @ + 1]
    /\ pc' = [pc EXCEPT ![p] = IF frame[p].i + 1 >= GraceTicks THEN "booted" ELSE "grace"]
    /\ UNCHANGED <<configFile, instances, nextInstanceId, nextImageId, seenAvailable, cmd, trace>>

\* main: edit runs edit_environment, with the save prompt; build runs
\* build_session, with the remote shell
SessionPcAlwaysPrompt(c) == "prompt"
SessionPc(c) == IF c = "edit" THEN "prompt" ELSE "session"

\* edit_environment enters its try block and _interactive_session shows the
\* SSH details and waits at the prompt; the locals of _wait_for_boot are gone
OpenPrompt(p) ==
    /\ pc[p] = "booted" /\ SessionPc(cmd[p]) = "prompt"
    /\ pc' = [pc EXCEPT ![p] = "prompt"]
    /\ frame' = [frame EXCEPT ![p].i = 0]
    /\ trace' = [trace EXCEPT ![p].session = TRUE, ![p].polled = <<>>]
    /\ UNCHANGED <<configFile, instances, nextInstanceId, nextImageId, seenAvailable, cmd>>

\* edit_environment: if should_save
AfterPromptPcAlwaysSave(should_save) == "snapshot"
AfterPromptPc(should_save) == IF should_save THEN "snapshot" ELSE "cleanup"

\* _interactive_session: the user presses Enter
PromptEnter(p) ==
    /\ pc[p] = "prompt"
    /\ frame' = [frame EXCEPT ![p].should_save = TRUE]
    /\ pc' = [pc EXCEPT ![p] = AfterPromptPc(TRUE)]
    /\ UNCHANGED <<configFile, instances, nextInstanceId, nextImageId, seenAvailable, cmd, trace>>

\* while image.status != 'available'
ImageLoopPcSkipSave(status) == IF status # "available" THEN "image_wait" ELSE "cleanup"
ImageLoopPc(status) == IF status # "available" THEN "image_wait" ELSE "save"

\* edit_environment: instance.disks[0] and images.create, followed by the
\* entry of _wait_for_image
Snapshot(p) ==
    /\ pc[p] = "snapshot"
    /\ \/ /\ nextImageId <= MaxImages
          /\ frame[p].instance.id \in instances
          /\ \E s \in ImageStatuses :
              /\ frame' = [frame EXCEPT ![p].image =
                            [id |-> PrivateImage(nextImageId), status |-> s],
                                        ![p].report = IF s = "available" THEN "ready" ELSE "none"]
              /\ pc' = [pc EXCEPT ![p] = ImageLoopPc(s)]
              /\ seenAvailable' = IF s = "available"
                                  THEN seenAvailable \cup {PrivateImage(nextImageId)}
                                  ELSE seenAvailable
          /\ trace' = [trace EXCEPT ![p] = Called(@, "snapshot")]
          /\ nextImageId' = nextImageId + 1
       \/ /\ pc' = [pc EXCEPT ![p] = RaisePc(cmd[p], "snapshot")]
          /\ frame' = [frame EXCEPT ![p].exc = "Exception"]
          /\ trace' = [trace EXCEPT ![p] = CallFailed(@, "snapshot")]
          /\ UNCHANGED <<nextImageId, seenAvailable>>
    /\ UNCHANGED <<configFile, instances, nextInstanceId, cmd>>

\* the exit of the loop of _wait_for_image after a refresh: the break at
\* max_wait_time, or the loop condition
ImagePollPcNoBreak(status, wait_time) == ImageLoopPc(status)
ImagePollPc(status, wait_time) ==
    IF wait_time >= MaxWaitTime THEN "save" ELSE ImageLoopPc(status)

\* what _wait_for_image tells its caller when it returns: it prints
\* "Image is ready!" and returns None whether the loop ended on "available"
\* or on the break
ImageReport(status, wait_time) == "ready"

\* _wait_for_image, one turn of the loop: sleep, wait_time += 10, refresh,
\* and the percentage that is printed with the status
ImagePoll(p) ==
    /\ pc[p] = "image_wait"
    /\ LET w == frame[p].wait_time + ImagePollSeconds IN
       \/ \E s \in ImageStatuses :
              /\ frame' = [frame EXCEPT ![p].image.status = s,
                                        ![p].wait_time = w,
                                        ![p].percentage = Percentage(w),
                                        ![p].report =
                                            IF ImagePollPc(s, w) = "save"
                                            THEN ImageReport(s, w) ELSE "none"]
              /\ pc' = [pc EXCEPT ![p] = ImagePollPc(s, w)]
              /\ seenAvailable' = IF s = "available"
                                  THEN seenAvailable \cup {frame[p].image.id}
                                  ELSE seenAvailable
              /\ trace' = [trace EXCEPT ![p] = Called(@, "image_get")]
       \/ /\ pc' = [pc EXCEPT ![p] = RaisePc(cmd[p], "image_wait")]
          /\ frame' = [frame EXCEPT ![p].exc = "Exception", ![p].wait_time = w]
          /\ trace' = [trace EXCEPT ![p] = CallFailed(@, "image_get")]
          /\ UNCHANGED seenAvailable
    /\ UNCHANGED <<configFile, instances, nextInstanceId, nextImageId, cmd>>

\* edit_environment: config['base_image_id'] = image.id; _save_config(config)
SaveConfig(p) ==
    /\ pc[p] = "save"
    /\ LET config == SavedConfig(frame[p].config, frame[p].image) IN
        /\ frame' = [frame EXCEPT ![p].config = config, ![p].wait_time = 0,
                                  ![p].percentage = 0]
        /\ configFile' = WrittenFile(configFile, config)
    /\ pc' = [pc EXCEPT ![p] = "cleanup"]
    /\ trace' = [trace EXCEPT ![p].writes = @ + 1]
    /\ UNCHANGED <<instances, nextInstanceId, nextImageId, seenAvailable, cmd>>

\* edit_environment, the finally block: instance.delete(); a pending
\* exception, or the one delete raises, then leaves the function
Cleanup(p) ==
    /\ pc[p] = "cleanup"
    /\ \/ /\ frame[p].instance.id \in instances
          /\ instances' = instances \ {frame[p].instance.id}
          /\ trace' = [trace EXCEPT ![p] =
                [Called(@, "delete") EXCEPT
                    !.outcome = IF frame[p].exc = "none" THEN "returned" ELSE "crashed"]]
       \/ /\ instances' = instances
          /\ trace' = [trace EXCEPT ![p] =
                [CallFailed(@, "delete") EXCEPT !.outcome = "crashed"]]
    /\ pc' = [pc EXCEPT ![p] = "done"]
    /\ UNCHANGED <<configFile, nextInstanceId, nextImageId, seenAvailable, cmd, frame>>

\* build_session: the SSH details are printed and _ssh starts the session
OpenSsh(p) ==
    /\ pc[p] \in {"booted", "attached"} /\ SessionPc(cmd[p]) = "session"
    /\ pc' = [pc EXCEPT ![p] = "session"]
    /\ frame' = [frame EXCEPT ![p].i = 0]
    /\ trace' = [trace EXCEPT ![p].session = TRUE, ![p].polled = <<>>]
    /\ UNCHANGED <<configFile, instances, nextInstanceId, nextImageId, seenAvailable, cmd>>

\* _ssh: subprocess.run returns when the remote shell exits, and so does
\* build_session
SshExit(p) ==
    /\ pc[p] = "session"
    /\ pc' = [pc EXCEPT ![p] = "done"]
    /\ trace' = [trace EXCEPT ![p].outcome = "returned"]
    /\ UNCHANGED <<configFile, instances, nextInstanceId, nextImageId, seenAvailable, cmd, frame>>

\* Ctrl+C while the invocation sleeps or waits for the user. Only the prompt
\* of _interactive_session catches KeyboardInterrupt (and returns False).
Interrupt(p) ==
    /\ pc[p] \in {"boot", "grace", "prompt", "image_wait", "session"}
    /\ IF pc[p] = "prompt"
       THEN /\ frame' = [frame EXCEPT ![p].should_save = FALSE]
            /\ pc' = [pc EXCEPT ![p] = AfterPromptPc(FALSE)]
            /\ trace' = [trace EXCEPT ![p].interrupted = pc[p]]
       ELSE /\ frame' = [frame EXCEPT ![p].exc = "KeyboardInterrupt"]
            /\ pc' = [pc EXCEPT ![p] = RaisePc(cmd[p], pc[p])]
            /\ trace' = [trace EXCEPT ![p].interrupted = pc[p],
                            ![p].outcome = RaiseOutcome(cmd[p], pc[p], "KeyboardInterrupt")]
    /\ UNCHANGED <<configFile, instances, nextInstanceId, nextImageId, seenAvailable, cmd>>

Step(p) ==
    \/ Start(p) \/ InitCheck(p) \/ InitWrite(p) \/ LoadConfig(p)
    \/ Attach(p) \/ CreateVm(p) \/ BootPoll(p) \/ GraceTick(p)
    \/ OpenPrompt(p) \/ PromptEnter(p) \/ Snapshot(p) \/ ImagePoll(p)
    \/ SaveConfig(p) \/ Cleanup(p) \/ OpenSsh(p) \/ SshExit(p) \/ Interrupt(p)

\* invocations one after the other
Next == \E p \in SeqProcs : Step(p)

Spec == Init /\ [][Next]_vars

\* two terminals, one invocation each, interleaved step by step: the record
\* file is absent or as init left it
InitConc ==
    /\ configFile \in {<<>>} \cup {<<NewConfig(pw, now)>> : pw \in Passwords, now \in Times}
    /\ instances = {}
    /\ nextInstanceId = 1
    /\ nextImageId = 1
    /\ seenAvailable = {}
    /\ pc = [p \in Procs |-> "idle"]
    /\ cmd = [p \in Procs |-> "none"]
    /\ frame = [p \in Procs |-> NewFrame]
    /\ trace = [p \in Procs |-> NewTrace(<<>>)]

ConcStep(p) ==
    \/ (pc[p] = "idle" /\ Start(p))
    \/ InitCheck(p) \/ InitWrite(p) \/ LoadConfig(p)
    \/ Attach(p) \/ CreateVm(p) \/ GraceTick(p)
    \/ (trace[p].calls["fetch"] < MaxConcPolls /\ BootPoll(p))
    \/ (trace[p].calls["image_get"] < MaxConcPolls /\ ImagePoll(p))
    \/ OpenPrompt(p) \/ PromptEnter(p) \/ Snapshot(p)
    \/ SaveConfig(p) \/ Cleanup(p) \/ OpenSsh(p) \/ SshExit(p) \/ Interrupt(p)

NextConc == \E p \in Procs : ConcStep(p)

SpecConc == InitConc /\ [][NextConc]_vars

\* ----------------------------------------------------------------- claims

Ended(p) == pc[p] = "done"
NoRecordBefore(p) ==
    Len(trace[p].before) = 0 \/ trace[p].before[1].base_image_id = NoImage

\* C1: in edit, once _create_vm has returned a handle, every way the
\* invocation can end has issued the deletion of that instance exactly once
C1_EditAlwaysDeletes ==
    \A p \in Procs :
        (cmd[p] = "edit" /\ Ended(p) /\ frame[p].instance.id # 0)
            => trace[p].calls["delete"] = 1

\* C2: the record never names a private image that no invocation has observed
\* "available"
C2_RecordNamesAvailableImage ==
    (Len(configFile) = 1 /\ configFile[1].base_image_id \notin {NoImage, StockImage})
        => configFile[1].base_image_id \in seenAvailable

\* C3: _wait_for_boot returns only with the status "running" observed and
\* after 30 grace ticks; created non-running and fetching provisioning,
\* provisioning, running, it has issued exactly 3 fetches and 30 ticks
C3_BootWait ==
    \A p \in Procs :
        pc[p] = "booted" =>
            /\ frame[p].instance.status = "running"
            /\ trace[p].created = "running" \/ trace[p].polled # <<>>
            /\ trace[p].polled # <<>> =>
                    trace[p].polled[Len(trace[p].polled)] = "running"
            /\ frame[p].i = 30
            /\ (/\ trace[p].created # "running"
                /\ trace[p].polled = <<"provisioning", "provisioning", "running">>)
                    => trace[p].calls["fetch"] = 3

C3_Witness ==
    \E p \in Procs :
        /\ pc[p] = "booted"
        /\ trace[p].created = "provisioning"
        /\ trace[p].polled = <<"provisioning", "provisioning", "running">>
        /\ trace[p].calls["fetch"] = 3
        /\ frame[p].i = 30

\* C4: init invoked while a record exists fails, issues no provider call and
\* leaves the record as it was
C4_InitAlreadyInitialized ==
    \A p \in Procs :
        (cmd[p] = "init" /\ pc[p] # "entry" /\ Len(trace[p].before) = 1) =>
            /\ Ended(p)
            /\ trace[p].outcome = "config_error"
            /\ trace[p].calls = NoCalls
            /\ trace[p].writes = 0
            /\ configFile = trace[p].before

C4_Witness ==
    \E p \in Procs :
        /\ cmd[p] = "init" /\ Ended(p)
        /\ Len(trace[p].before) = 1
        /\ trace[p].before[1].base_image_id = PrivateImage(1)
        /\ trace[p].outcome = "config_error"
        /\ configFile = trace[p].before

\* C5: without a record, or with a record that has no base image, edit and
\* build (with or without --continue) fail at once: no provider call, no
\* record written, no session
C5_NoRecordFailsAtOnce ==
    \A p \in Procs :
        (cmd[p] \in {"edit", "build"} /\ pc[p] # "entry" /\ NoRecordBefore(p)) =>
            /\ Ended(p)
            /\ trace[p].outcome = "config_error"
            /\ trace[p].calls = NoCalls
            /\ trace[p].writes = 0
            /\ ~trace[p].session
            /\ configFile = trace[p].before

C5_Witness ==
    \E p \in Procs :
        /\ cmd[p] = "edit" /\ Ended(p)
        /\ trace[p].before = <<>>
        /\ configFile = <<>>
        /\ trace[p].outcome = "config_error"

\* C6: an edit in which the user saved, the new image N was observed
\* available and no provider call failed leaves the record with base image N
\* (not the previous one), its other fields as before, and its instance gone
C6_EditSaveUpdatesRecord ==
    \A p \in Procs :
        (/\ cmd[p] = "edit" /\ Ended(p)
         /\ frame[p].should_save
         /\ frame[p].image.status = "available"
         /\ trace[p].failed = "none") =>
            /\ Len(trace[p].before) = 1
            /\ configFile =
                <<[trace[p].before[1] EXCEPT !.base_image_id = frame[p].image.id]>>
            /\ frame[p].image.id # trace[p].before[1].base_image_id
            /\ frame[p].instance.id # 0
            /\ frame[p].instance.id \notin instances

C6_Witness ==
    \E p \in Procs :
        /\ cmd[p] = "edit" /\ Ended(p)
        /\ frame[p].should_save
        /\ trace[p].before[1].base_image_id = PrivateImage(1)
        /\ frame[p].image = [id |-> PrivateImage(2), status |-> "available"]
        /\ frame[p].wait_time = 0 /\ trace[p].calls["image_get"] > 0
        /\ configFile[1].base_image_id = PrivateImage(2)
        /\ frame[p].instance.id \notin instances

\* C7: _wait_for_image reports ready when it ends on "available" and a
\* distinct timed-out outcome when it ends on the break with no "available"
\* status observed
C7_ImageWaitOutcome ==
    \A p \in Procs :
        pc[p] = "save" =>
            /\ frame[p].image.status = "available" => frame[p].report = "ready"
            /\ frame[p].image.status # "available" => frame[p].report = "timed_out"

\* what holds of every invocation after a failed create request
CreateFailureIsFinal ==
    \A p \in Procs :
        /\ trace[p].calls["create"] <= 1
        /\ trace[p].failed = "create" =>
            /\ Ended(p)
            /\ trace[p].outcome \in {"crashed", "failed"}
            /\ frame[p].instance = NoInstance
            /\ trace[p].calls = [NoCalls EXCEPT !["create"] = 1]
            /\ trace[p].writes = 0
            /\ ~trace[p].session
            /\ configFile = trace[p].before

\* the provider call that failed in an invocation is not issued again by it
FailedCallNotRepeated ==
    \A p \in Procs :
        (trace[p].failed # "none" /\ pc'[p] # "entry") =>
            trace'[p].calls[trace[p].failed] = trace[p].calls[trace[p].failed]

\* C8: an invocation issues at most one create request; after a failed create
\* it has no handle, has ended, has issued no other provider call and has not
\* touched the record; and no failed provider call is issued again
C8_NoRetry == [][CreateFailureIsFinal' /\ FailedCallNotRepeated]_vars

C8_Witness ==
    \E p \in Procs :
        /\ cmd[p] = "edit" /\ Ended(p)
        /\ trace[p].failed = "create"
        /\ trace[p].outcome = "crashed"

\* C9: when the remote session of a build that created its instance ends, the
\* instance has been deleted at the provider
C9_BuildTearsDown ==
    \A p \in Procs :
        (/\ cmd[p] = "build" /\ Ended(p)
         /\ frame[p].instance_id = 0
         /\ trace[p].session /\ trace[p].outcome = "returned") =>
            /\ trace[p].calls["delete"] = 1
            /\ frame[p].instance.id \notin instances

\* C10: an interrupt at the save prompt of edit or in the remote session of
\* build ends in the discard path: the deletion is issued, no snapshot is
\* taken and the record is not modified
C10_InterruptDiscards ==
    \A p \in Procs :
        (Ended(p) /\ trace[p].interrupted \in {"prompt", "session"}) =>
            /\ trace[p].calls["delete"] = 1
            /\ trace[p].calls["snapshot"] = 0
            /\ trace[p].writes = 0
            /\ configFile = trace[p].before

\* a step keeps the record: it stays, with its name, class, timestamp and
\* credential; its base image changes only by the write of an edit that saved
RecordKept ==
    Len(configFile) = 1 =>
        /\ Len(configFile') = 1
        /\ configFile'[1].repo_name = configFile[1].repo_name
        /\ configFile'[1].instance_type = configFile[1].instance_type
        /\ configFile'[1].created_at = configFile[1].created_at
        /\ configFile'[1].root_password = configFile[1].root_password
        /\ configFile'[1].base_image_id # configFile[1].base_image_id =>
            \E p \in Procs :
                /\ cmd[p] = "edit" /\ frame[p].should_save
                /\ pc[p] = "save" /\ pc'[p] = "cleanup"
                /\ configFile'[1].base_image_id = frame[p].image.id

\* the create request of an invocation carried the credential of the record
CreateCarriesCredential ==
    \A p \in Procs :
        trace[p].calls["create"] > 0 =>
            /\ Len(configFile) = 1
            /\ trace[p].root_pass = configFile[1].root_password
            /\ trace[p].root_pass \in Passwords

\* C11: once the record exists no invocation deletes it or changes its name,
\* class, timestamp or credential; the base image changes only in an edit
\* that saved; every create request carries the stored credential
C11_RecordStable == [][RecordKept /\ CreateCarriesCredential']_vars

C11_Witness ==
    \E p \in Procs :
        /\ cmd[p] = "build" /\ trace[p].calls["create"] = 1
        /\ trace[p].root_pass = "pw-b"
        /\ configFile[1].root_password = "pw-b"
        /\ configFile[1].base_image_id = PrivateImage(1)
        /\ configFile[1].repo_name = RepoName

\* C12: _wait_for_image refreshes the image at most 60 times and is out of
\* its loop once the wait reaches 600 s; when the status never became
\* "available" it returns without an error at 600 s, and edit then writes the
\* image's id into the record and deletes the instance
C12_ImageWaitSoftTimeout ==
    \A p \in Procs :
        /\ trace[p].calls["image_get"] <= 60
        /\ frame[p].wait_time <= 600
        /\ pc[p] = "image_wait" =>
            /\ frame[p].wait_time < 600
            /\ frame[p].wait_time = 10 * trace[p].calls["image_get"]
            /\ frame[p].image.status # "available"
        /\ (pc[p] = "save" /\ frame[p].image.status # "available") =>
            /\ frame[p].wait_time = 600
            /\ trace[p].calls["image_get"] = 60
            /\ frame[p].exc = "none" /\ trace[p].failed = "none"
        /\ (/\ Ended(p) /\ frame[p].image.status \notin {"None", "available"}
            /\ trace[p].calls["image_get"] = 60 /\ frame[p].exc = "none") =>
            /\ trace[p].writes = 1
            /\ configFile = <<[trace[p].before[1] EXCEPT
                                !.base_image_id = frame[p].image.id]>>
            /\ trace[p].calls["delete"] = 1
            /\ trace[p].failed = "none" => frame[p].instance.id \notin instances

C12_Witness ==
    \E p \in Procs :
        /\ cmd[p] = "edit" /\ Ended(p)
        /\ frame[p].image = [id |-> PrivateImage(1), status |-> "creating"]
        /\ trace[p].calls["image_get"] = 60
        /\ trace[p].outcome = "returned"
        /\ configFile[1].base_image_id = PrivateImage(1)
        /\ frame[p].instance.id \notin instances

\* an invocation whose created handle has not been seen "running" is still
\* polling, or was ended by an exception; it has reached no grace tick, no
\* session, no snapshot and no delete. A "running" answer ends the polling.
BootWaitHolds ==
    \A p \in Procs :
        /\ (trace[p].calls["create"] = 1 /\ frame[p].instance.id # 0
                /\ frame[p].instance.status # "running") =>
            /\ pc[p] \in {"boot", "done"}
            /\ Ended(p) => frame[p].exc # "none"
            /\ frame[p].i = 0
            /\ ~trace[p].session
            /\ trace[p].calls["snapshot"] = 0 /\ trace[p].calls["delete"] = 0
            /\ trace[p].writes = 0
        /\ pc[p] = "boot" =>
            /\ frame[p].instance.status # "running"
            /\ trace[p].calls["fetch"] = Len(trace[p].polled)
            /\ trace[p].calls["fetch"] < MaxPolls => ENABLED BootPoll(p)
        /\ \A k \in 1..(Len(trace[p].polled) - 1) : trace[p].polled[k] # "running"
        /\ pc[p] = "grace" => frame[p].instance.status = "running" /\ frame[p].i < 30
        /\ pc[p] = "booted" => frame[p].instance.status = "running" /\ frame[p].i = 30

\* the status loop is left only on a "running" answer or by an exception
BootLoopExit ==
    \A p \in Procs :
        (pc[p] = "boot" /\ pc'[p] # "boot") =>
            \/ /\ pc'[p] = "grace"
               /\ frame'[p].instance.status = "running"
               /\ trace'[p].calls["fetch"] = trace[p].calls["fetch"] + 1
            \/ pc'[p] = "done" /\ frame'[p].exc # "none"

\* C13: _wait_for_boot has no timeout and no poll limit: while the provider
\* does not report "running" it polls on and the invocation reaches neither
\* session, snapshot nor delete; a "running" answer ends the polling at that
\* fetch, and the function returns after exactly 30 grace ticks
C13_BootWaitUnbounded == [][BootWaitHolds' /\ BootLoopExit]_vars

C13_Witness ==
    \E p \in Procs :
        /\ cmd[p] = "edit" /\ pc[p] = "boot"
        /\ trace[p].calls["fetch"] = 3
        /\ trace[p].polled = <<"provisioning", "booting", "provisioning">>
        /\ ~trace[p].session

\* where an edit invocation stands with respect to its four save steps
SaveStepsHold ==
    \A p \in Procs :
        cmd[p] = "edit" =>
            /\ trace[p].calls["snapshot"] <= 1
            /\ trace[p].writes <= 1
            /\ trace[p].calls["delete"] <= 1
            /\ trace[p].calls["snapshot"] = 1 => frame[p].should_save
            /\ trace[p].calls["image_get"] > 0 => trace[p].calls["snapshot"] = 1
            /\ trace[p].writes = 1 =>
                trace[p].calls["snapshot"] = 1 /\ pc[p] \in {"cleanup", "done"}
            /\ pc[p] \in {"snapshot", "image_wait", "save"} =>
                trace[p].calls["delete"] = 0 /\ frame[p].instance.id \in instances
            /\ trace[p].calls["delete"] = 1 => Ended(p)
            /\ (Ended(p) /\ frame[p].should_save /\ frame[p].exc = "none") =>
                /\ trace[p].calls["snapshot"] = 1
                /\ trace[p].writes = 1
                /\ trace[p].calls["delete"] = 1

\* each save step of an edit invocation is taken after the ones before it
SaveStepsOrdered ==
    \A p \in Procs :
        cmd[p] = "edit" =>
            /\ trace'[p].calls["snapshot"] > trace[p].calls["snapshot"] =>
                /\ trace[p].calls["image_get"] = 0
                /\ trace[p].writes = 0 /\ trace[p].calls["delete"] = 0
            /\ trace'[p].calls["image_get"] > trace[p].calls["image_get"] =>
                /\ trace[p].calls["snapshot"] = 1
                /\ trace[p].writes = 0 /\ trace[p].calls["delete"] = 0
            /\ trace'[p].writes > trace[p].writes =>
                /\ pc[p] = "save"
                /\ trace[p].calls["snapshot"] = 1 /\ trace[p].calls["delete"] = 0
            /\ trace'[p].calls["delete"] > trace[p].calls["delete"] =>
                pc[p] = "cleanup" /\ pc'[p] = "done"
            /\ (trace[p].calls["delete"] = 1 /\ pc'[p] # "entry") =>
                trace'[p].calls = trace[p].calls /\ trace'[p].writes = trace[p].writes

\* C14: in an edit that saves, the snapshot request, the image wait, the
\* write of the record and the deletion happen in this order, each at most
\* once; the instance is not deleted before the image wait has ended and the
\* deletion is the invocation's last provider call
C14_SaveOrder == [][SaveStepsHold' /\ SaveStepsOrdered]_vars

C14_Witness ==
    \E p \in Procs :
        /\ cmd[p] = "edit" /\ Ended(p) /\ frame[p].should_save
        /\ trace[p].calls["snapshot"] = 1
        /\ trace[p].calls["image_get"] = 2
        /\ trace[p].writes = 1
        /\ trace[p].calls["delete"] = 1
        /\ trace[p].outcome = "returned"

\* C15: an edit invocation cancelled at the save prompt issues no snapshot
\* request, awaits no image, leaves the record file as it was before the
\* invocation, and ends with its instance deleted
C15_DiscardLeavesRecord ==
    \A p \in Procs :
        (cmd[p] = "edit" /\ trace[p].interrupted = "prompt") =>
            /\ ~frame[p].should_save
            /\ pc[p] \in {"cleanup", "done"}
            /\ trace[p].calls["snapshot"] = 0
            /\ trace[p].calls["image_get"] = 0
            /\ frame[p].image = NoImageHandle
            /\ trace[p].writes = 0
            /\ configFile = trace[p].before
            /\ Ended(p) =>
                /\ trace[p].calls["delete"] = 1
                /\ trace[p].failed # "delete" => frame[p].instance.id \notin instances

C15_Witness ==
    \E p \in Procs :
        /\ cmd[p] = "edit" /\ trace[p].interrupted = "prompt" /\ Ended(p)
        /\ trace[p].calls["delete"] = 1
        /\ frame[p].instance.id \notin instances
        /\ Len(configFile) = 1 /\ configFile = trace[p].before

\* C16: when the snapshot request of a saving edit fails, or its image wait is
\* aborted by a provider error or by Ctrl+C, the record file is left as it
\* was before the invocation and the instance is still deleted
C16_FailedSaveKeepsRecord ==
    \A p \in Procs :
        (cmd[p] = "edit" /\ frame[p].should_save /\ frame[p].exc # "none") =>
            /\ trace[p].failed \in {"snapshot", "image_get", "delete"}
                \/ trace[p].interrupted = "image_wait"
            /\ pc[p] \in {"cleanup", "done"}
            /\ trace[p].writes = 0
            /\ configFile = trace[p].before
            /\ Ended(p) =>
                /\ trace[p].calls["delete"] = 1
                /\ trace[p].failed # "delete" => frame[p].instance.id \notin instances

C16_Witness ==
    \E p \in Procs :
        /\ cmd[p] = "edit" /\ frame[p].should_save /\ Ended(p)
        /\ trace[p].interrupted = "image_wait"
        /\ frame[p].exc = "KeyboardInterrupt"
        /\ trace[p].calls["delete"] = 1
        /\ frame[p].instance.id \notin instances
        /\ configFile = trace[p].before

\* a write is never held back by what the other terminal is doing
WriteNeverWaits ==
    \A p \in Procs :
        /\ pc[p] = "init_write" => ENABLED InitWrite(p)
        /\ pc[p] = "save" => ENABLED SaveConfig(p)

\* a write replaces the file by the writer's own config
LastWriterWins ==
    \A p \in Procs :
        trace'[p].writes > trace[p].writes =>
            /\ Len(configFile') = 1
            /\ cmd[p] = "init" =>
                /\ configFile'[1] = frame[p].config
                /\ frame[p].config.root_password \in Passwords
            /\ cmd[p] = "edit" =>
                /\ configFile'[1].base_image_id = frame[p].image.id
                /\ configFile'[1].root_password = frame[p].config.root_password

\* C17: no lock is taken on the record file: a write never waits for the
\* other invocation and replaces the file by the writer's config, so that two
\* concurrent init both write and the second credential replaces the first,
\* and of two concurrent saving edit the base image written last stays
C17_UnlockedWrites == [][WriteNeverWaits /\ LastWriterWins]_vars

\* both init passed the existence check and wrote; the first credential is lost
C17_Witness ==
    \E p, q \in Procs :
        /\ p # q
        /\ cmd[p] = "init" /\ cmd[q] = "init"
        /\ Ended(p) /\ Ended(q)
        /\ trace[p].writes = 1 /\ trace[q].writes = 1
        /\ frame[p].config.root_password # frame[q].config.root_password
        /\ configFile = <<frame[q].config>>

\* both edit saved; the record names the image of one, the other's is orphaned
EditRaceEnd ==
    \E p, q \in Procs :
        /\ p # q
        /\ cmd[p] = "edit" /\ cmd[q] = "edit"
        /\ Ended(p) /\ Ended(q)
        /\ trace[p].writes = 1 /\ trace[q].writes = 1
        /\ frame[p].image.id # frame[q].image.id
        /\ configFile[1].base_image_id = frame[q].image.id

\* the invocation of terminal p is running with a handle in hand
HoldsHandle(p) == pc[p] \notin {"idle", "done"} /\ frame[p].instance.id # 0

\* C18: a VM handle is owned by one invocation alone: two running
\* invocations never hold a handle to the same instance, and the instance of
\* a held handle, or of an open session, has not been deleted
C18_HandleExclusive ==
    \A p \in Procs :
        HoldsHandle(p) =>
            /\ frame[p].instance.id \in instances
            /\ \A q \in Procs \ {p} :
                HoldsHandle(q) => frame[q].instance.id # frame[p].instance.id

\* the handle of p was observed running and its grace period has elapsed
HandleReady(p) ==
    /\ pc[p] = "booted"
    /\ frame[p].instance.status = "running"
    /\ frame[p].i = GraceTicks

\* C19: an interactive or remote session is opened only on a handle that was
\* observed running and whose grace period has elapsed, and a snapshot is
\* requested only after that session; in edit, in build and in
\* build --continue
C19_SessionOnReadyHandle ==
    [][\A p \in Procs :
        /\ (~trace[p].session /\ trace'[p].session) => HandleReady(p)
        /\ trace'[p].calls["snapshot"] > trace[p].calls["snapshot"] =>
            trace[p].session /\ frame[p].instance.status = "running"]_vars

\* what a build invocation has done to the record so far
BuildWroteNothing ==
    \A p \in Procs :
        cmd[p] = "build" =>
            /\ trace[p].writes = 0
            /\ trace[p].calls["snapshot"] = 0
            /\ trace[p].calls["image_get"] = 0
            /\ frame[p].image = NoImageHandle
            /\ ~frame[p].should_save
            /\ configFile = trace[p].before

\* no step of a build invocation touches the record file
BuildStepKeepsFile ==
    \A p \in Procs :
        (cmd[p] = "build" /\ pc[p] # "done" /\ pc'[p] # pc[p]) =>
            configFile' = configFile

\* C20: a build invocation, with or without --continue, succeeding or
\* failing, never writes the record file, never requests a snapshot and
\* never changes the base image field
C20_BuildReadsOnly == [][BuildWroteNothing' /\ BuildStepKeepsFile]_vars

C20_Witness ==
    \E p \in Procs :
        /\ cmd[p] = "build" /\ Ended(p)
        /\ frame[p].instance_id # 0
        /\ trace[p].session
        /\ trace[p].outcome = "returned"
        /\ Len(configFile) = 1
        /\ configFile = trace[p].before

\* the invocation of p has printed a percentage and is still in, or just
\* out of, the loop of its image wait
PercentageShown(p) ==
    /\ cmd[p] = "edit"
    /\ pc[p] \in {"image_wait", "save"}
    /\ trace[p].calls["image_get"] > 0

\* the percentage on display, after elapsed = 10 s times the refreshes so far
PercentageIsFloor ==
    \A p \in Procs :
        PercentageShown(p) =>
            LET elapsed == 10 * trace[p].calls["image_get"]
                floor == (elapsed * 95) \div 600
            IN  /\ frame[p].wait_time = elapsed
                /\ frame[p].percentage = IF floor < 95 THEN floor ELSE 95
                /\ frame[p].percentage >= 0 /\ frame[p].percentage <= 95
                /\ frame[p].percentage = 95 <=> elapsed = 600

\* from one refresh to the next the percentage does not go down
PercentageGrows ==
    \A p \in Procs :
        (PercentageShown(p) /\ PercentageShown(p)'
            /\ trace'[p].calls["image_get"] > trace[p].calls["image_get"]) =>
            frame'[p].percentage >= frame[p].percentage

\* C21: the percentage printed by the image wait is
\* min(floor(elapsed * 95 / 600), 95) with elapsed = 10 s times the number of
\* refreshes so far; it lies between 0 and 95, never decreases from one
\* refresh to the next, and is 95 only at the refresh where elapsed is 600 s
C21_Percentage == [][PercentageIsFloor' /\ PercentageGrows]_vars

C21_Witness ==
    \E p \in Procs :
        /\ PercentageShown(p) /\ pc[p] = "save"
        /\ trace[p].calls["image_get"] = 60
        /\ frame[p].wait_time = 600
        /\ frame[p].percentage = 95
        /\ frame[p].image.status = "creating"
====
